---------------------------- MODULE Spec2Model ----------------------------
(***************************************************************************)
(* Model of the converter: a Skill document is loaded (deserialize_json),  *)
(* projected onto SkillCsv and encoded by three csv writers whose outputs  *)
(* are stitched by a positional fold (serialize_csv_to_file); tracing      *)
(* events are collected in a mutex-guarded buffer (EventCollector).        *)
(*                                                                         *)
(* Text is a sequence of tokens: the four characters the csv writer and    *)
(* the fold treat specially (comma, quote, line break, pipe) are tokens of *)
(* their own, every other token is a run of ordinary characters.           *)
(*                                                                         *)
(* serialize_csv_vector is declared to return Vec<T> but returns the       *)
(* writer's bytes, and its results are used as text by the fold; the model *)
(* takes the written bytes as that text.                                   *)
(***************************************************************************)
EXTENDS Integers, Sequences, FiniteSets, TLC

VARIABLES
  pc,          \* position of App::update: idle, loaded, failed, serialized, panicked
  file,        \* the document picked and read by deserialize_json, if any
  path,        \* the PathBuf returned with the Skill, mutated by set_extension
  skill,       \* the Skill value returned by deserialize_json, if any
  result,      \* the (header, row) pair built by the fold, if any
  outcome,     \* what the last call returned: None, Ok, Err
  deserCalls,  \* calls of deserialize_json within the current update
  serCalls,    \* calls of serialize_csv_to_file within the current update
  written,     \* what has been written to destination files
  events,      \* EventCollector.events: the buffer behind the mutex
  lock,        \* holder of the mutex (Free or a thread)
  tpc,         \* position of each tracer thread
  pending,     \* the event each producer is collecting
  snapshot,    \* the Vec being built / returned by events()
  copyIdx,     \* clone progress of events()
  atLock,      \* the buffer as it stood when events() took the lock
  emitted,     \* number of events created so far
  accepted,    \* events that passed collect's filter, in filter order
  pushed,      \* events in the order they were pushed
  removed,     \* events dropped by clear, in order
  returned,    \* TRUE when snapshot holds a value events() has returned
  ename,       \* enum under round trip
  wire,        \* external string handed to the decoder
  decoded,     \* result of decoding wire
  reencoded,   \* result of encoding decoded again
  epc          \* position of the round trip: start, decoded, encoded

appVars == <<pc, file, path, skill, result, outcome, deserCalls, serCalls, written>>
tracerVars == <<lock, tpc, pending, snapshot, copyIdx, atLock, emitted, accepted,
                pushed, removed, returned>>
enumVars == <<ename, wire, decoded, reencoded, epc>>
vars == <<appVars, events, tracerVars, enumVars>>

None == "None"
\* Options are sequences of length at most one.
NoFile == <<>>
Free == "Free"

\* ------------------------------------------------------------------ text

COMMA == ","
QUOTE == "\""
NL == "\n"
CR == "\r"
PIPE == "|"

\* str::split(sep): n occurrences of sep give n + 1 pieces, empty ones kept.
RECURSIVE Split(_, _)
Split(t, sep) ==
  IF \A i \in 1..Len(t) : t[i] # sep
  THEN <<t>>
  ELSE LET i == CHOOSE k \in 1..Len(t) : t[k] = sep /\ \A j \in 1..(k - 1) : t[j] # sep
       IN  <<SubSeq(t, 1, i - 1)>> \o Split(SubSeq(t, i + 1, Len(t)), sep)

\* [T]::join(sep): the pieces with sep between neighbours.
RECURSIVE Join(_, _)
Join(pieces, sep) ==
  IF Len(pieces) = 0 THEN <<>>
  ELSE IF Len(pieces) = 1 THEN pieces[1]
  ELSE pieces[1] \o sep \o Join(Tail(pieces), sep)

\* ------------------------------------------------------------ csv writer

\* QuoteStyle::Necessary: a field is quoted when it holds a delimiter, a quote
\* or a line terminator.
NeedsQuotes(f) == \E i \in 1..Len(f) : f[i] \in {COMMA, QUOTE, NL, CR}

RECURSIVE EscapeQuotes(_)
EscapeQuotes(f) ==
  IF Len(f) = 0 THEN <<>>
  ELSE (IF Head(f) = QUOTE THEN <<QUOTE, QUOTE>> ELSE <<Head(f)>>) \o EscapeQuotes(Tail(f))

WriteField(f) == IF NeedsQuotes(f) THEN <<QUOTE>> \o EscapeQuotes(f) \o <<QUOTE>> ELSE f

\* One record and its terminator; a record that wrote no byte (no field, or one
\* empty field) is written as an empty quoted field.
WriteRecord(fields) ==
  LET body == Join([i \in 1..Len(fields) |-> WriteField(fields[i])], <<COMMA>>)
  IN  (IF body = <<>> THEN <<QUOTE, QUOTE>> ELSE body) \o <<NL>>

\* ----------------------------------------------------------------- enums

EnumNames == {"SkillType", "DamageType", "Reagents", "ProficiencyLevel", "Unit", "Debuff"}

\* The serde name of each enumerator: its rename, or its identifier.
WireTable(enum) ==
  CASE enum = "SkillType" ->
         [Melee |-> "MeleeCombatSkill", Ranged |-> "RangedCombatSkill",
          Utility |-> "UtilitySkill", Spell |-> "SpellSkill", Healing |-> "HealingSkill"]
    [] enum = "DamageType" ->
         [PhysicalSlashing |-> "Physical/Slashing", Magical |-> "Magical"]
    [] enum = "Reagents" ->
         [SparklingPowder |-> "SparklingPowder", Blood |-> "Blood"]
    [] enum = "ProficiencyLevel" ->
         [Novice |-> "novice", Adept |-> "adept", Master |-> "master"]
    [] enum = "Unit" ->
         [Meters |-> "meters", Degrees |-> "degrees"]
    [] enum = "Debuff" ->
         [RiskOfCounterAttack |-> "RiskOfCounterAttack"]

Variants(enum) == DOMAIN WireTable(enum)

Err == [ok |-> FALSE, val |-> None]
Ok(v) == [ok |-> TRUE, val |-> v]

\* A Serialize that forgets the renames and writes the identifier.
EncodeEnumIdent(enum, v) == v

\* derive(Serialize): a unit variant is written as its serde name.
EncodeEnum(enum, v) == WireTable(enum)[v]

\* A Deserialize that falls back to some enumerator on an unknown string.
DecodeEnumDefault(enum, s) ==
  IF \E v \in Variants(enum) : WireTable(enum)[v] = s
  THEN Ok(CHOOSE v \in Variants(enum) : WireTable(enum)[v] = s)
  ELSE Ok(CHOOSE v \in Variants(enum) : TRUE)

\* derive(Deserialize): the string must be the serde name of an enumerator,
\* compared exactly; anything else is an unknown-variant error.
DecodeEnum(enum, s) ==
  IF \E v \in Variants(enum) : WireTable(enum)[v] = s
  THEN Ok(CHOOSE v \in Variants(enum) : WireTable(enum)[v] = s)
  ELSE Err

\* impl Borrow<str> for Reagents (what [Reagents]::join uses).
ReagentsBorrow(v) ==
  CASE v = "SparklingPowder" -> "sparkling_powder"
    [] v = "Blood" -> "blood"

\* impl Display for Reagents.
ReagentsDisplay(v) ==
  CASE v = "SparklingPowder" -> "sparkling_powder"
    [] v = "Blood" -> "blood"


\* ------------------------------------------------------------- documents

MaxReagents == 2
MaxAspects == 2
U8Max == 255

SeqsUpTo(S, n) == UNION {[1..k -> S] : k \in 0..n}

\* Strings offered where the document names an enumerator: serde names, and
\* strings no table holds (an unknown name, an internal identifier, the
\* lowercase reagent form, a wrong case).
TypeStrings == {"HealingSkill", "FireballSkill"}
DamageStrings == {"Magical", "Physical"}
UnitStrings == {"meters", "Meters"}
ReagentStrings == {"SparklingPowder", "Blood", "blood"}
LevelKeySets == {{}, {"novice", "master"}, {"Novice"}}
DebuffKeySets == {{}, {"RiskOfCounterAttack"}}
NameTexts == {<<"a">>, <<"a", COMMA, "b">>, <<"a", NL, "b">>}
AspectTexts == {<<"x">>, <<"y", PIPE, "z">>}
CooldownValues == {U8Max, U8Max + 1}

Measurement(u) == [value |-> "f32", explanation |-> <<"why">>, unit |-> u]
ProficiencyDoc == [description |-> <<"p">>, damageMultiplier |-> "f32", cooldownFactors |-> U8Max]
DebuffDoc == [description |-> <<"d">>, multiplier |-> "f32", tickDuration |-> U8Max]

Documents ==
  { [abilityName |-> n, type |-> t, shortDescription |-> <<"short">>,
     extendedDescription |-> <<"long">>, narrative |-> <<"story">>,
     cooldownSeconds |-> c, damageType |-> d, requiredSkill |-> <<"req">>,
     requirements |-> [actions |-> U8Max, conditions |-> <<"cond">>],
     baseDamageMultiplier |-> Measurement(None),
     immediateDamagePerUse |-> Measurement(None),
     effectRange |-> Measurement(u),
     areaDamageArc |-> Measurement("degrees"),
     proficiencyLevels |-> [k \in pk |-> ProficiencyDoc],
     debuffs |-> [k \in dk |-> DebuffDoc],
     requiredReagents |-> rs, aspects |-> as] :
       n \in NameTexts, t \in TypeStrings, c \in CooldownValues, d \in DamageStrings,
       u \in UnitStrings, pk \in LevelKeySets, dk \in DebuffKeySets,
       rs \in SeqsUpTo(ReagentStrings, MaxReagents),
       as \in SeqsUpTo(AspectTexts, MaxAspects) }

Paths == {[stem |-> "skill", ext |-> "json"], [stem |-> "skill", ext |-> None]}

\* ---------------------------------------------------------------- loader

\* Option<Unit>: an absent unit is None, a present one must decode.
DecodeUnit(u) == IF u = None THEN Ok(None) ELSE DecodeEnum("Unit", u)

DecodeSkillData(m) ==
  [value |-> m.value, explanation |-> m.explanation, unit |-> DecodeUnit(m.unit).val]

\* HashMap<K, V> keyed by an enum: every key of the object must decode.
KeysOk(enum, obj) == \A k \in DOMAIN obj : DecodeEnum(enum, k).ok

DecodeMap(enum, obj) ==
  LET ks == {DecodeEnum(enum, k).val : k \in DOMAIN obj}
  IN  [v \in ks |-> obj[CHOOSE k \in DOMAIN obj : DecodeEnum(enum, k).val = v]]

\* serde_json::from_str::<Skill>: the first field that does not decode fails
\* the whole document; the Skill exists only when every field decoded.
DeserializeSkill(doc) ==
  LET ty == DecodeEnum("SkillType", doc.type)
      dt == DecodeEnum("DamageType", doc.damageType)
      rs == [i \in 1..Len(doc.requiredReagents) |->
               DecodeEnum("Reagents", doc.requiredReagents[i])]
      ms == <<doc.baseDamageMultiplier, doc.immediateDamagePerUse,
              doc.effectRange, doc.areaDamageArc>>
  IN  IF /\ ty.ok
         /\ dt.ok
         /\ doc.cooldownSeconds \in 0..U8Max
         /\ doc.requirements.actions \in 0..U8Max
         /\ \A i \in 1..Len(ms) : DecodeUnit(ms[i].unit).ok
         /\ KeysOk("ProficiencyLevel", doc.proficiencyLevels)
         /\ KeysOk("Debuff", doc.debuffs)
         /\ \A i \in 1..Len(rs) : rs[i].ok
      THEN Ok([not_nested_data |->
                 [ability_name |-> doc.abilityName,
                  skill_type |-> ty.val,
                  short_description |-> doc.shortDescription,
                  extended_description |-> doc.extendedDescription,
                  narrative |-> doc.narrative,
                  cooldown_seconds |-> doc.cooldownSeconds,
                  damage_type |-> dt.val,
                  required_skill |-> doc.requiredSkill],
               requirements |-> doc.requirements,
               base_damage_multiplier |-> DecodeSkillData(doc.baseDamageMultiplier),
               immediate_damage_per_use |-> DecodeSkillData(doc.immediateDamagePerUse),
               effect_range |-> DecodeSkillData(doc.effectRange),
               area_damage_arc |-> DecodeSkillData(doc.areaDamageArc),
               proficiency_levels |-> DecodeMap("ProficiencyLevel", doc.proficiencyLevels),
               debuffs |-> DecodeMap("Debuff", doc.debuffs),
               required_reagents |-> [i \in 1..Len(rs) |-> rs[i].val],
               aspects |-> doc.aspects])
      ELSE Err

\* --------------------------------------------------------------- encoder

\* A conversion that lets the debuff map leak into a scalar field.
SkillCsvFromWithMaps(s) ==
  [not_nested_data |->
     [s.not_nested_data EXCEPT
        !.cooldown_seconds = IF DOMAIN s.debuffs = {} THEN @ ELSE 0],
   required_reagents |-> s.required_reagents,
   aspects |-> s.aspects]

\* impl From<Skill> for SkillCsv: the three fields SkillCsv has; requirements,
\* the four measurements and both maps are dropped.
SkillCsvFrom(s) ==
  [not_nested_data |-> s.not_nested_data,
   required_reagents |-> s.required_reagents,
   aspects |-> s.aspects]

\* The serde names of SkillNotNested's fields, in declaration order.
NotNestedHeader ==
  << <<"abilityName">>, <<"type">>, <<"shortDescription">>, <<"extendedDescription">>,
     <<"narrative">>, <<"cooldownSeconds">>, <<"damageType">>, <<"requiredSkill">> >>

NotNestedValues(d) ==
  << d.ability_name, <<EncodeEnum("SkillType", d.skill_type)>>, d.short_description,
     d.extended_description, d.narrative, <<ToString(d.cooldown_seconds)>>,
     <<EncodeEnum("DamageType", d.damage_type)>>, d.required_skill >>

\* writer.serialize(csv._not_nested_data) on a writer with headers: the header
\* record, then the value record.
SerializeNotNested(d) == WriteRecord(NotNestedHeader) \o WriteRecord(NotNestedValues(d))

\* What Serialize writes for each element of the slice: a Reagents as its serde
\* name, a String as itself.
SerReagents(vec) == [i \in 1..Len(vec) |-> <<EncodeEnum("Reagents", vec[i])>>]
SerStrings(vec) == vec

\* serialize_csv_vector: a writer without headers serializes the slice as one
\* record, one field per element, each element through its Serialize impl.
SerializeCsvVector(data) == WriteRecord(data)

\* serialize_reagents / serialize_aspects: the "|"-joined single string the
\* serialize_with attributes of SkillCsv name.
SerializeReagents(vec) == Join([i \in 1..Len(vec) |-> <<ReagentsBorrow(vec[i])>>], <<PIPE>>)
SerializeAspects(vec) == Join(vec, <<PIPE>>)

\* The fold's initial accumulator (vec![], vec![]); panic records an index out
\* of range.
EmptyAcc == [panic |-> FALSE, header |-> <<>>, row |-> <<>>]

\* A fold step that puts the header in front instead of at the back.
FoldStepSwapped(acc, str) ==
  LET split == Split(str, NL)
  IN  IF acc.panic \/ Len(split) < 2
      THEN [acc EXCEPT !.panic = TRUE]
      ELSE [panic |-> FALSE,
            header |-> <<split[1]>> \o acc.header,
            row |-> Append(acc.row, split[2])]

\* One step of the fold: split on the line break, push piece 0 to the header
\* and piece 1 to the row; indexing a missing piece panics.
FoldStep(acc, str) ==
  LET split == Split(str, NL)
  IN  IF acc.panic \/ Len(split) < 2
      THEN [acc EXCEPT !.panic = TRUE]
      ELSE [panic |-> FALSE,
            header |-> Append(acc.header, split[1]),
            row |-> Append(acc.row, split[2])]

RECURSIVE Fold(_, _)
Fold(acc, strs) == IF Len(strs) = 0 THEN acc ELSE Fold(FoldStep(acc, Head(strs)), Tail(strs))

\* The three section texts, in the order of the array the fold walks.
Sections(s) ==
  LET csv == SkillCsvFrom(s)
  IN  << SerializeNotNested(csv.not_nested_data),
         SerializeCsvVector(SerReagents(csv.required_reagents)),
         SerializeCsvVector(SerStrings(csv.aspects)) >>

Assemble(s) == Fold(EmptyAcc, Sections(s))

\* PathBuf::set_extension.
SetExtension(p, e) == [p EXCEPT !.ext = e]

\* ----------------------------------------------------------------- tracer

MaxLog == 2

\* Level's order, least verbose first.
LevelOrder == <<"ERROR", "WARN", "INFO", "DEBUG", "TRACE">>
TracerLevelFrom(l) == CHOOSE i \in 1..Len(LevelOrder) : LevelOrder[i] = l

\* EventCollector::level(Level::DEBUG) in main.
ConfiguredLevel == "DEBUG"
CrateName == <<"converter">>

StartsWith(t, prefix) == Len(t) >= Len(prefix) /\ SubSeq(t, 1, Len(prefix)) = prefix

\* A condition that forgets the target.
AcceptsAnyTarget(ev) == TracerLevelFrom(ev.level) <= TracerLevelFrom(ConfiguredLevel)

\* The condition of collect.
Accepts(ev) ==
  /\ TracerLevelFrom(ev.level) <= TracerLevelFrom(ConfiguredLevel)
  /\ StartsWith(ev.target, CrateName)

ProcessTarget == <<"converter", "::process">>
MainTarget == <<"converter">>
Event(level, target, id) == [id |-> id, level |-> level, target |-> target]

\* event! from the single GUI thread: on_event calls collect, which takes the
\* free lock, pushes and releases before the macro returns.
Logged(buf, new) == buf \o SelectSeq(new, Accepts)

\* Threads sharing one EventCollector (it is Clone over an Arc): producers run
\* on_event -> collect, the consumer runs events and clear.
Producers == {"p1", "p2"}
Consumer == "ui"
Threads == Producers \cup {Consumer}

\* ------------------------------------------------------------ App::update

\* deserialize_json, and the Err arm of update when it fails. NoFile stands
\* for a dialog closed without a choice or a file that cannot be read; a
\* document that does not decode stands for every parse failure.
Deserialize ==
  /\ pc = "idle"
  /\ Len(events) < MaxLog
  /\ \E f \in {<<d>> : d \in Documents} \cup {NoFile}, p \in Paths :
       LET picked == f # NoFile
           parsed == IF picked THEN DeserializeSkill(f[1]) ELSE Err
       IN  /\ file' = f
           /\ path' = IF parsed.ok THEN <<p>> ELSE <<>>
           /\ skill' = IF parsed.ok THEN <<parsed.val>> ELSE <<>>
           /\ outcome' = IF parsed.ok THEN "Ok" ELSE "Err"
           /\ pc' = IF parsed.ok THEN "loaded" ELSE "failed"
           /\ events' = Logged(events,
                  <<Event("INFO", ProcessTarget, "Deserializing JSON")>>
                  \o (IF picked THEN <<Event("DEBUG", ProcessTarget, "file")>> ELSE <<>>)
                  \o (IF parsed.ok THEN <<Event("DEBUG", ProcessTarget, "skill")>>
                      ELSE <<Event("ERROR", MainTarget, "Failed to deserialize JSON")>>))
  /\ deserCalls' = deserCalls + 1
  /\ UNCHANGED <<result, serCalls, written, tracerVars, enumVars>>

\* serialize_csv_to_file on the loaded Skill: it sets the extension, encodes,
\* folds, logs and prints the result and returns Ok(()); nothing is written.
Serialize ==
  /\ pc = "loaded"
  /\ LET acc == Assemble(skill[1])
     IN  /\ path' = <<SetExtension(path[1], "csv")>>
         /\ result' = IF acc.panic THEN <<>> ELSE <<[header |-> acc.header, row |-> acc.row]>>
         /\ outcome' = IF acc.panic THEN "Panic" ELSE "Ok"
         /\ pc' = IF acc.panic THEN "panicked" ELSE "serialized"
         /\ events' = Logged(events,
                <<Event("INFO", ProcessTarget, "Serializing CSV")>>
                \o (IF acc.panic THEN <<>> ELSE <<Event("INFO", ProcessTarget, "result")>>))
  /\ serCalls' = serCalls + 1
  /\ UNCHANGED <<file, skill, deserCalls, written, tracerVars, enumVars>>

\* update returns: the Skill, the path and the result are dropped.
EndUpdate ==
  /\ pc \in {"failed", "serialized"}
  /\ pc' = "idle"
  /\ file' = <<>> /\ path' = <<>> /\ skill' = <<>> /\ result' = <<>> /\ outcome' = None
  /\ deserCalls' = 0 /\ serCalls' = 0
  /\ UNCHANGED <<written, events, tracerVars, enumVars>>

\* EventCollector::clear from the GUI thread between two updates.
ClearLog ==
  /\ pc = "idle"
  /\ events # <<>>
  /\ events' = <<>>
  /\ UNCHANGED <<appVars, tracerVars, enumVars>>

TracerIdle ==
  /\ lock = Free
  /\ tpc = [t \in Threads |-> "idle"]
  /\ pending = [p \in Producers |-> <<>>]
  /\ snapshot = <<>> /\ copyIdx = 0
  /\ atLock = <<>> /\ emitted = 0 /\ accepted = <<>> /\ pushed = <<>> /\ removed = <<>>
  /\ returned = FALSE

EnumIdle ==
  /\ ename = None /\ wire = None /\ decoded = Err /\ reencoded = None /\ epc = None

AppIdle ==
  /\ pc = "idle" /\ file = <<>> /\ path = <<>> /\ skill = <<>> /\ result = <<>>
  /\ outcome = None /\ deserCalls = 0 /\ serCalls = 0 /\ written = <<>>

Init == AppIdle /\ events = <<>> /\ TracerIdle /\ EnumIdle

Next == Deserialize \/ Serialize \/ EndUpdate \/ ClearLog

Spec == Init /\ [][Next]_vars


\* ------------------------------------------- EventCollector, concurrently

MaxEvents == 4

EventLevels == {"INFO", "TRACE"}
EventTargets == {ProcessTarget, <<"eframe">>}

\* A buffer shared without mutual exclusion.
CanLockAlways(t) == TRUE

\* Mutex::lock returns only when no thread holds the mutex.
CanLock(t) == lock = Free

\* on_event -> collect: the event is built and the condition evaluated; an
\* event that fails it is dropped without touching the lock.
CollectFilter(p) ==
  /\ tpc[p] = "idle"
  /\ emitted < MaxEvents
  /\ \E l \in EventLevels, tg \in EventTargets :
       LET ev == Event(l, tg, emitted + 1)
       IN  IF Accepts(ev)
           THEN /\ pending' = [pending EXCEPT ![p] = <<ev>>]
                /\ accepted' = Append(accepted, ev)
                /\ tpc' = [tpc EXCEPT ![p] = "lock"]
           ELSE UNCHANGED <<pending, accepted, tpc>>
  /\ emitted' = emitted + 1
  /\ UNCHANGED <<appVars, enumVars, events, lock, snapshot, copyIdx, atLock, pushed,
                 removed, returned>>

\* collect: self.events.lock()
CollectLock(p) ==
  /\ tpc[p] = "lock"
  /\ CanLock(p)
  /\ lock' = p
  /\ tpc' = [tpc EXCEPT ![p] = "push"]
  /\ UNCHANGED <<appVars, enumVars, events, pending, snapshot, copyIdx, atLock, emitted,
                 accepted, pushed, removed, returned>>

\* collect: .push(event), and the guard dropped at the end of the statement.
CollectPush(p) ==
  /\ tpc[p] = "push"
  /\ events' = Append(events, pending[p][1])
  /\ pushed' = Append(pushed, pending[p][1])
  /\ pending' = [pending EXCEPT ![p] = <<>>]
  /\ lock' = Free
  /\ tpc' = [tpc EXCEPT ![p] = "idle"]
  /\ UNCHANGED <<appVars, enumVars, snapshot, copyIdx, atLock, emitted, accepted,
                 removed, returned>>

\* events: self.events.lock()
EventsLock ==
  /\ tpc[Consumer] = "idle"
  /\ CanLock(Consumer)
  /\ lock' = Consumer
  /\ atLock' = events
  /\ snapshot' = <<>>
  /\ copyIdx' = 0
  /\ returned' = FALSE
  /\ tpc' = [tpc EXCEPT ![Consumer] = "clone"]
  /\ UNCHANGED <<appVars, enumVars, events, pending, emitted, accepted, pushed, removed>>

\* events: .clone() copies the buffer element by element.
EventsCopy ==
  /\ tpc[Consumer] = "clone"
  /\ copyIdx < Len(events)
  /\ snapshot' = Append(snapshot, events[copyIdx + 1])
  /\ copyIdx' = copyIdx + 1
  /\ UNCHANGED <<appVars, enumVars, events, lock, tpc, pending, atLock, emitted, accepted,
                 pushed, removed, returned>>

\* events: the clone is complete, the guard is dropped, the Vec is returned.
EventsReturn ==
  /\ tpc[Consumer] = "clone"
  /\ copyIdx >= Len(events)
  /\ lock' = Free
  /\ returned' = TRUE
  /\ tpc' = [tpc EXCEPT ![Consumer] = "idle"]
  /\ UNCHANGED <<appVars, enumVars, events, pending, snapshot, copyIdx, atLock, emitted,
                 accepted, pushed, removed>>

\* clear: self.events.lock()
ClearLock ==
  /\ tpc[Consumer] = "idle"
  /\ CanLock(Consumer)
  /\ lock' = Consumer
  /\ tpc' = [tpc EXCEPT ![Consumer] = "clear"]
  /\ UNCHANGED <<appVars, enumVars, events, pending, snapshot, copyIdx, atLock, emitted,
                 accepted, pushed, removed, returned>>

\* clear: *events = vec![], and the guard dropped at the end of the function.
ClearStore ==
  /\ tpc[Consumer] = "clear"
  /\ events' = <<>>
  /\ removed' = removed \o events
  /\ lock' = Free
  /\ tpc' = [tpc EXCEPT ![Consumer] = "idle"]
  /\ UNCHANGED <<appVars, enumVars, pending, snapshot, copyIdx, atLock, emitted, accepted,
                 pushed, returned>>

NextTracer ==
  \/ \E p \in Producers : CollectFilter(p)
  \/ \E p \in Producers : CollectLock(p)
  \/ \E p \in Producers : CollectPush(p)
  \/ EventsLock
  \/ EventsCopy
  \/ EventsReturn
  \/ ClearLock
  \/ ClearStore

SpecTracer == Init /\ [][NextTracer]_vars

\* ------------------------------------------------------ enum round trips

\* Strings an enumerator is known by outside the program: the serde names of
\* every enum, the Borrow / Display strings of Reagents, internal identifiers
\* and a name no enum has.
ExternalStrings ==
  UNION {{WireTable(e)[v] : v \in Variants(e)} : e \in EnumNames}
  \cup {ReagentsDisplay(v) : v \in Variants("Reagents")}
  \cup {ReagentsBorrow(v) : v \in Variants("Reagents")}
  \cup UNION {Variants(e) : e \in EnumNames}
  \cup {"FireballSkill"}

InitEnum ==
  /\ AppIdle /\ events = <<>> /\ TracerIdle
  /\ ename \in EnumNames
  /\ wire \in ExternalStrings
  /\ decoded = Err
  /\ reencoded = None
  /\ epc = "start"

\* Deserialize of the enum on the string.
DecodeStep ==
  /\ epc = "start"
  /\ decoded' = DecodeEnum(ename, wire)
  /\ epc' = "decoded"
  /\ UNCHANGED <<appVars, events, tracerVars, ename, wire, reencoded>>

\* Serialize of the decoded enumerator.
EncodeStep ==
  /\ epc = "decoded"
  /\ decoded.ok
  /\ reencoded' = EncodeEnum(ename, decoded.val)
  /\ epc' = "encoded"
  /\ UNCHANGED <<appVars, events, tracerVars, ename, wire, decoded>>

\* Display of the decoded Reagents enumerator.
DisplayStep ==
  /\ epc = "decoded"
  /\ decoded.ok
  /\ ename = "Reagents"
  /\ reencoded' = ReagentsDisplay(decoded.val)
  /\ epc' = "displayed"
  /\ UNCHANGED <<appVars, events, tracerVars, ename, wire, decoded>>

NextEnum == DecodeStep \/ EncodeStep \/ DisplayStep

SpecEnum == InitEnum /\ [][NextEnum]_vars


\* ---------------------------------------------------------------- claims

\* Columns of one csv line: the commas outside quoted fields, plus one.
RECURSIVE CommasOutside(_, _)
CommasOutside(t, inq) ==
  IF Len(t) = 0 THEN 0
  ELSE IF Head(t) = QUOTE THEN CommasOutside(Tail(t), ~inq)
  ELSE (IF Head(t) = COMMA /\ ~inq THEN 1 ELSE 0) + CommasOutside(Tail(t), inq)

Columns(t) == CommasOutside(t, FALSE) + 1

RECURSIVE SumColumns(_)
SumColumns(lines) == IF Len(lines) = 0 THEN 0 ELSE Columns(Head(lines)) + SumColumns(Tail(lines))

\* The lines of a section text: its pieces, without the empty piece that
\* follows the last line break.
LinesOf(t) ==
  LET s == Split(t, NL)
  IN  IF s[Len(s)] = <<>> THEN SubSeq(s, 1, Len(s) - 1) ELSE s

Serialized == pc = "serialized" /\ result # <<>>

\* C1: the assembled header and row have the same number of columns, counted
\* inside the three section strings.
C1_HeaderRowAligned ==
  Serialized =>
    /\ Len(result[1].header) = Len(result[1].row)
    /\ SumColumns(result[1].header) = SumColumns(result[1].row)

\* C2: when a section does not consist of exactly two lines, the call returns
\* an error value instead of a result, and does not panic.
C2_EncodingFailureOnBadSplit ==
  (serCalls = 1 /\ \E i \in 1..3 : Len(LinesOf(Sections(skill[1])[i])) # 2) =>
    /\ pc # "panicked"
    /\ outcome = "Err"
    /\ result = <<>>

\* C3: the reagent section is one column whose value is the lowercase reagent
\* strings joined with "|" in list order (the empty string for no reagents).
C3_ReagentColumnJoined ==
  Serialized =>
    /\ Columns(result[1].header[2]) = 1
    /\ result[1].row[2] = SerializeReagents(skill[1].required_reagents)

\* The columns C4 asks of the scalar section beyond the eight top-level ones.
CompositeColumns ==
  { <<"requirements.actions">>, <<"requirements.conditions">> } \cup
  UNION { { <<m \o ".value">>, <<m \o ".explanation">>, <<m \o ".unit">> } :
            m \in {"baseDamageMultiplier", "immediateDamagePerUse", "effectRange",
                   "areaDamageArc"} }

\* C4: the scalar section has a column for each of the eight top-level scalars
\* and for each sub-field of the nested composites, named by its dotted path.
C4_ScalarSectionHasComposites ==
  Serialized =>
    LET cols == Split(result[1].header[1], COMMA)
        names == {cols[i] : i \in 1..Len(cols)}
    IN  /\ \A i \in 1..Len(NotNestedHeader) : NotNestedHeader[i] \in names
        /\ CompositeColumns \subseteq names

\* C5: an update whose load and transcode succeed has handed header and row to
\* the destination exactly once, under the input path with extension csv.
C5_SuccessMeansWritten ==
  (Serialized /\ outcome = "Ok") =>
    /\ Len(written) = 1
    /\ written[1] = [path |-> path[1], header |-> result[1].header, row |-> result[1].row]
    /\ path[1].ext = "csv"

\* A document names an enumerator by a string its enum's table does not hold.
NamesOf(enum) == {WireTable(enum)[v] : v \in Variants(enum)}

HasUnknownEnum(doc) ==
  \/ doc.type \notin NamesOf("SkillType")
  \/ doc.damageType \notin NamesOf("DamageType")
  \/ \E m \in {doc.baseDamageMultiplier, doc.immediateDamagePerUse, doc.effectRange,
               doc.areaDamageArc} : m.unit # None /\ m.unit \notin NamesOf("Unit")
  \/ \E k \in DOMAIN doc.proficiencyLevels : k \notin NamesOf("ProficiencyLevel")
  \/ \E k \in DOMAIN doc.debuffs : k \notin NamesOf("Debuff")
  \/ \E i \in 1..Len(doc.requiredReagents) : doc.requiredReagents[i] \notin NamesOf("Reagents")

\* C6: a document with an unknown enum string makes deserialize_json fail: no
\* Skill exists, serialize_csv_to_file is not called in that update, nothing is
\* encoded or written, and deserialize_json is not called again.
C6_UnknownEnumAborts ==
  (file # NoFile /\ HasUnknownEnum(file[1])) =>
    /\ pc = "failed"
    /\ outcome = "Err"
    /\ skill = <<>>
    /\ result = <<>>
    /\ serCalls = 0
    /\ deserCalls = 1
    /\ written = <<>>

C6_Witness ==
  /\ pc = "failed"
  /\ file # NoFile
  /\ file[1].type = "FireballSkill"
  /\ deserCalls = 1

WithoutMaps(s) ==
  [s EXCEPT !.proficiency_levels = [k \in {} |-> 0], !.debuffs = [k \in {} |-> 0]]

\* C7: the assembled header and row are those of the same Skill with both maps
\* empty: nothing in them depends on proficiency or debuff data.
C7_MapsNotInOutput ==
  Serialized =>
    LET acc == Assemble(WithoutMaps(skill[1]))
    IN  /\ ~acc.panic
        /\ result[1] = [header |-> acc.header, row |-> acc.row]

C7_Witness ==
  /\ Serialized
  /\ DOMAIN skill[1].proficiency_levels # {}
  /\ DOMAIN skill[1].debuffs # {}

ReagentForms == {ReagentsDisplay(v) : v \in Variants("Reagents")}

\* C8 as stated: every external form of an enumerator, the tabular form of
\* Reagents included, decodes, and re-encodes to the same string.
C8_OneWireFormRoundTrips ==
  (epc # "start" /\ (wire \in NamesOf(ename) \/ (ename = "Reagents" /\ wire \in ReagentForms))) =>
    /\ decoded.ok
    /\ epc \in {"encoded", "displayed"} => reencoded = wire

\* C8 amended: the serde names of an enum are pairwise distinct, exactly they
\* decode, and decoding then serializing gives the name back; the lowercase
\* strings of Reagents are a second, pairwise distinct form that is produced by
\* Display but rejected by the decoder.
C8_SerdeNamesRoundTrip ==
  /\ \A e \in EnumNames : \A v1, v2 \in Variants(e) :
       v1 # v2 => EncodeEnum(e, v1) # EncodeEnum(e, v2)
  /\ \A v1, v2 \in Variants("Reagents") : v1 # v2 => ReagentsDisplay(v1) # ReagentsDisplay(v2)
  /\ epc # "start" => (decoded.ok <=> wire \in NamesOf(ename))
  /\ epc = "encoded" => reencoded = wire
  /\ epc = "displayed" => (reencoded \in ReagentForms /\ reencoded # wire)
  /\ (epc # "start" /\ ename = "Reagents" /\ wire \in ReagentForms) => ~decoded.ok

C8_Witness ==
  /\ epc = "displayed"
  /\ ename = "Reagents"
  /\ wire = "Blood"
  /\ reencoded = "blood"

\* C9: positions 0, 1, 2 of header and of row come from the scalar, reagent
\* and aspect section, in that order, header and value of a position from the
\* same section.
C9_SectionsInFixedOrder ==
  Serialized =>
    LET secs == Sections(skill[1])
    IN  /\ Len(result[1].header) = 3
        /\ Len(result[1].row) = 3
        /\ \A i \in 1..3 :
             /\ result[1].header[i] = Split(secs[i], NL)[1]
             /\ result[1].row[i] = Split(secs[i], NL)[2]
        /\ Split(result[1].header[1], COMMA) = NotNestedHeader

C9_Witness ==
  /\ Serialized
  /\ skill[1].required_reagents # <<>>
  /\ skill[1].aspects # <<>>
  /\ result[1].header[2] # result[1].header[3]
  /\ result[1].header[1] # result[1].header[2]

Ids(evs) == {evs[i].id : i \in 1..Len(evs)}

\* C10: a returned snapshot is the buffer as it stood when events() held the
\* lock; the buffer is the pushed events minus the cleared ones, in push order;
\* each event that passed the filter is pushed once or still on its way; only
\* events at or below the configured level whose target starts with the crate
\* name are pushed.
C10_CollectorConsistent ==
  /\ returned => snapshot = atLock
  /\ tpc[Consumer] = "clone" =>
       (copyIdx <= Len(atLock) /\ snapshot = SubSeq(atLock, 1, copyIdx))
  /\ removed \o events = pushed
  /\ Cardinality(Ids(pushed)) = Len(pushed)
  /\ Ids(accepted) = Ids(pushed) \cup UNION {Ids(pending[p]) : p \in Producers}
  /\ Len(accepted) = Len(pushed) + Cardinality({p \in Producers : pending[p] # <<>>})
  /\ \A i \in 1..Len(pushed) :
       /\ TracerLevelFrom(pushed[i].level) <= TracerLevelFrom(ConfiguredLevel)
       /\ StartsWith(pushed[i].target, CrateName)
  /\ \A i \in 1..Len(atLock) : \E j \in 1..Len(pushed) : atLock[i] = pushed[j]

C10_Witness ==
  /\ returned
  /\ Len(snapshot) >= 2
  /\ removed # <<>>
  /\ emitted > Len(accepted)
  /\ tpc["p1"] = "lock"

=============================================================================
